---- MODULE Spec2Model ----
(***************************************************************************)
(* Model of isx_stream.py: class isx_scope.  The geometry computed by      *)
(* isx_set_defaults, the telemetry decode and sequence tracking of         *)
(* update_frame_stats, and the read / gate / deliver path of get_frame.    *)
(***************************************************************************)
EXTENDS Integers, Sequences, FiniteSets, TLC

(***************************************************************************)
(* Program constants of isx_set_defaults.                                  *)
(***************************************************************************)
isx_default_width == 1280
isx_default_height == 800
isx_meta_header_length == 2
isx_meta_footer_length == 2
isx_meta_fc_offset == 1258
isx_meta_ad_flag_offset == 1257
size16 == 2
size32 == 4
frame_record_flag_value == 2768

isx_meta_header_bytes == isx_meta_header_length * isx_default_width * size16
isx_meta_footer_bytes == isx_meta_footer_length * isx_default_width * size16
isx_meta_total_bytes == isx_meta_header_bytes + isx_meta_footer_bytes

(***************************************************************************)
(* Bounds of the model.                                                    *)
(***************************************************************************)
\* number of get_frame calls explored in one session
MaxFrames == 3

\* downsample factors a session is constructed with: the twelve common
\* divisors of 1280 and 800, and the factors 0, 3 and 64 that are not
DownsampleFactors == {0, 1, 2, 3, 4, 5, 8, 10, 16, 20, 32, 40, 64, 80, 160}

\* frame counters the sensor writes into the telemetry row
Counters == {0, 99, 100, 101, 102, 103, 65535, 65536, 16909060}

\* values of the sample at the recording-flag column: the sentinel, and the
\* nearest value that is not the sentinel
FlagSamples == {frame_record_flag_value, frame_record_flag_value + 1}

\* how NumPy types "uint16 scalar <op> Python int": "int64" under value-based
\* promotion (NumPy 1.x), "uint16" under NEP 50 (NumPy 2.x)
Promotions == {"int64", "uint16"}

(***************************************************************************)
(* isx_set_defaults: the geometry, one operator per assignment.            *)
(***************************************************************************)
\* line 93 and 95 divide by ds_factor and by stream_width
RaisesZeroDivision(ds_factor) ==
    \/ ds_factor = 0
    \/ isx_default_width \div ds_factor = 0

\* HeaderOffset with the header's bytes divided by the samples of a row
HeaderOffsetPerSample(stream_width) == isx_meta_header_bytes \div stream_width

HeaderOffset(stream_width) == isx_meta_header_bytes \div (size16 * stream_width)

\* FrameCounterOffset with the row index subtracted instead of the row's start
FrameCounterOffsetNoRowStart(stream_width) ==
    isx_meta_fc_offset - (isx_meta_fc_offset \div stream_width)

FrameCounterOffset(stream_width) ==
    isx_meta_fc_offset - ((isx_meta_fc_offset \div stream_width) * stream_width)

FrameRecordFlagOffset(stream_width) ==
    isx_meta_ad_flag_offset - ((isx_meta_fc_offset \div stream_width) * stream_width)

\* isx_set_defaults with frame_height taken from the local stream_height, the
\* height without the telemetry rows, instead of self.stream_height
isx_set_defaults_local_height(ds_factor) ==
    LET stream_width == isx_default_width \div ds_factor
        stream_height == isx_default_height \div ds_factor
        header_footer_line_count_16bit == isx_meta_total_bytes \div stream_width
        header_footer_line_count_32bit ==
            (header_footer_line_count_16bit * size16) \div size32
        full_height == stream_height + header_footer_line_count_32bit
        frame_width == stream_width * (size32 \div size16)
        frame_height == stream_height * (size32 \div size16)
    IN  [ stream_width |-> stream_width,
          stream_height |-> full_height,
          frame_width |-> frame_width,
          frame_height |-> frame_height,
          frame_size_in_bytes |-> frame_width * frame_height,
          isx_header_offset |-> HeaderOffset(stream_width),
          isx_footer_offset |-> stream_height + HeaderOffset(stream_width),
          header_row_with_meta |-> isx_meta_fc_offset \div stream_width,
          frame_counter_offset |-> FrameCounterOffset(stream_width),
          frame_record_flag_offset |-> FrameRecordFlagOffset(stream_width),
          frame_record_flag_value |-> frame_record_flag_value ]

isx_set_defaults(ds_factor) ==
    LET stream_width == isx_default_width \div ds_factor
        stream_height == isx_default_height \div ds_factor
        header_footer_line_count_16bit == isx_meta_total_bytes \div stream_width
        header_footer_line_count_32bit ==
            (header_footer_line_count_16bit * size16) \div size32
        full_height == stream_height + header_footer_line_count_32bit
        frame_width == stream_width * (size32 \div size16)
        frame_height == full_height * (size32 \div size16)
    IN  [ stream_width |-> stream_width,
          stream_height |-> full_height,
          frame_width |-> frame_width,
          frame_height |-> frame_height,
          frame_size_in_bytes |-> frame_width * frame_height,
          isx_header_offset |-> HeaderOffset(stream_width),
          isx_footer_offset |-> stream_height + HeaderOffset(stream_width),
          header_row_with_meta |-> isx_meta_fc_offset \div stream_width,
          frame_counter_offset |-> FrameCounterOffset(stream_width),
          frame_record_flag_offset |-> FrameRecordFlagOffset(stream_width),
          frame_record_flag_value |-> frame_record_flag_value ]

\* the fields of an object whose construction raised
NoGeometry == [ stream_width |-> 0 ]

(***************************************************************************)
(* Integer arithmetic on a uint16 sample (frame16 is a uint16 view, line   *)
(* 181).  dtype is the type NumPy gives "sample <op> Python int".          *)
(***************************************************************************)
uint16_modulus == 65536
uint16_bits == 16

RECURSIVE BitOr(_, _)
BitOr(a, b) ==
    IF a = 0 THEN b
    ELSE IF b = 0 THEN a
    ELSE (IF a % 2 = 1 \/ b % 2 = 1 THEN 1 ELSE 0) + 2 * BitOr(a \div 2, b \div 2)

ShiftRight(x, k) == x \div (2 ^ k)

\* a left shift in uint16 drops the bits above bit 15, and a shift by the
\* width or more gives 0; in int64 nothing is lost for 12-bit inputs
ShiftLeft(dtype, x, k) ==
    IF dtype = "uint16"
    THEN IF k >= uint16_bits THEN 0 ELSE (x * (2 ^ k)) % uint16_modulus
    ELSE x * (2 ^ k)

\* prev_frame_seq_id + 1 and curr_frame_seq_id - 1, in the counter's type
PlusOne(dtype, x) == IF dtype = "uint16" THEN (x + 1) % uint16_modulus ELSE x + 1
MinusOne(dtype, x) == IF dtype = "uint16" THEN (x - 1) % uint16_modulus ELSE x - 1

(***************************************************************************)
(* The telemetry row as get_frame hands it to update_frame_stats: its      *)
(* width and the samples at the columns that are not 0.                    *)
(***************************************************************************)
Readable(row, i) == 0 <= i /\ i < row.width
Sample(row, i) == IF i \in DOMAIN row.cells THEN row.cells[i] ELSE 0

(***************************************************************************)
(* update_frame_stats.                                                     *)
(***************************************************************************)
\* lines 212-216
DecodeCounter(dtype, s0, s1, s2, s3) ==
    BitOr(BitOr(BitOr(ShiftLeft(dtype, ShiftRight(s0, 4), 0),
                      ShiftLeft(dtype, ShiftRight(s1, 4), 8)),
                ShiftLeft(dtype, ShiftRight(s2, 4), 16)),
          ShiftLeft(dtype, ShiftRight(s3, 4), 24))

\* lines 218-222
IsRecording(frame_record_byte) == frame_record_byte = frame_record_flag_value

\* MissingFramesRange with the range ending at the current counter
MissingFramesRangeInclusive(dtype, prev, curr) ==
    IF prev # 0 /\ curr # PlusOne(dtype, prev)
    THEN << PlusOne(dtype, prev), curr >>
    ELSE << >>

\* MissingFramesRange without the test of the sentinel 0
MissingFramesRangeNoSentinel(dtype, prev, curr) ==
    IF curr # PlusOne(dtype, prev)
    THEN << PlusOne(dtype, prev), MinusOne(dtype, curr) >>
    ELSE << >>

\* lines 224-230: the value of frame_statistics['missing_frames_range']
MissingFramesRange(dtype, prev, curr) ==
    IF prev # 0 /\ curr # PlusOne(dtype, prev)
    THEN << PlusOne(dtype, prev), MinusOne(dtype, curr) >>
    ELSE << >>

\* UpdatedPrev with the assignment inside the if of line 226
UpdatedPrevOnGapOnly(prev, curr) ==
    IF prev # 0 /\ curr # prev + 1 THEN curr ELSE prev

\* line 232
UpdatedPrev(prev, curr) == curr

\* the indexing of lines 213-218 raises IndexError on a row too short, which
\* the handler of line 236 turns into the return value False
update_frame_stats(dtype, geom, prev, stats, row) ==
    LET fc == geom.frame_counter_offset
        fl == geom.frame_record_flag_offset
        raised == ~(/\ Readable(row, fc) /\ Readable(row, fc + 1)
                    /\ Readable(row, fc + 2) /\ Readable(row, fc + 3)
                    /\ Readable(row, fl))
        curr == DecodeCounter(dtype, Sample(row, fc), Sample(row, fc + 1),
                              Sample(row, fc + 2), Sample(row, fc + 3))
        rec == IsRecording(Sample(row, fl))
    IN  IF raised
        THEN [ raised |-> TRUE, status |-> FALSE,
               frame_statistics |-> stats, prev_frame_seq_id |-> prev ]
        ELSE [ raised |-> FALSE, status |-> rec,
               frame_statistics |->
                   [ missing_frames_range |-> MissingFramesRange(dtype, prev, curr),
                     seq_id |-> curr,
                     isxd_record |-> rec ],
               prev_frame_seq_id |-> UpdatedPrev(prev, curr) ]

(***************************************************************************)
(* get_frame.                                                              *)
(***************************************************************************)
Min(a, b) == IF a <= b THEN a ELSE b
Max(a, b) == IF a >= b THEN a ELSE b

None == [ kind |-> "None" ]
Pair(stats, frame) == [ kind |-> "pair", stats |-> stats, frame |-> frame ]

\* line 184: frame16[isx_header_offset : isx_footer_offset], a slice, which
\* NumPy clips to the rows the array has
PixelRows(geom, rd) ==
    [ id |-> rd.id,
      first |-> Min(geom.isx_header_offset, rd.nrows),
      rows |-> Max(0, Min(geom.isx_footer_offset, rd.nrows)
                      - Min(geom.isx_header_offset, rd.nrows)) ]

\* Suppressed without the test of sync_with_recording
SuppressedWheneverNotRecording(sync, isxd_record_status) == ~isxd_record_status

\* line 188
Suppressed(sync, isxd_record_status) == sync /\ ~isxd_record_status

\* the whole of get_frame on the result rd of stream_capture.read(): the
\* value returned and the fields of the object afterwards
get_frame(dtype, geom, sync, capture, prev, stats, rd) ==
    LET same == [ prev_frame_seq_id |-> prev, frame_statistics |-> stats,
                  decoded |-> FALSE ]
        r == update_frame_stats(dtype, geom, prev, stats, rd.row)
        after == [ prev_frame_seq_id |-> r.prev_frame_seq_id,
                   frame_statistics |-> r.frame_statistics,
                   decoded |-> ~r.raised ]
    IN  IF capture = "unset"
        THEN \* AttributeError at line 173, handled at line 196
             [ returned |-> None ] @@ same
        ELSE IF ~rd.ret
        THEN \* line 175
             [ returned |-> None ] @@ same
        ELSE IF ~(geom.header_row_with_meta < rd.nrows)
        THEN \* IndexError at line 186, handled at line 196
             [ returned |-> None ] @@ same
        ELSE IF Suppressed(sync, r.status)
        THEN [ returned |-> None ] @@ after
        ELSE [ returned |-> Pair(r.frame_statistics, PixelRows(geom, rd)) ] @@ after

(***************************************************************************)
(* What stream_capture.read() can hand to get_frame.                       *)
(***************************************************************************)
Byte(c, i) == (c \div (256 ^ i)) % 256

\* the sensor's telemetry row for counter c and flag sample f, cut to width
EncodeRow(geom, width, c, f) ==
    LET fc == geom.frame_counter_offset
        fl == geom.frame_record_flag_offset
    IN  [ width |-> width,
          cells |-> [ i \in { j \in {fl} \cup (fc .. fc + 3) : j < width } |->
                        IF i = fl THEN f ELSE Byte(c, i - fc) * 16 ] ]

NoData == [ ret |-> FALSE, id |-> 0 ]

\* a buffer of frame_size_in_bytes bytes: frame_height rows of stream_width samples
GoodFrames(geom, id) ==
    { [ ret |-> TRUE, id |-> id, shape |-> "good", counter |-> c, flag |-> f,
        nrows |-> geom.frame_height,
        row |-> EncodeRow(geom, geom.stream_width, c, f) ] :
      c \in Counters, f \in FlagSamples }

\* buffers of another size: one that ends before the telemetry row, and one
\* whose rows end inside the counter field
BadFrames(geom, id) ==
    { [ ret |-> TRUE, id |-> id, shape |-> "short", counter |-> 100,
        flag |-> frame_record_flag_value,
        nrows |-> geom.header_row_with_meta,
        row |-> EncodeRow(geom, geom.stream_width, 100, frame_record_flag_value) ],
      [ ret |-> TRUE, id |-> id, shape |-> "narrow", counter |-> 100,
        flag |-> frame_record_flag_value,
        nrows |-> geom.frame_height,
        row |-> EncodeRow(geom, geom.frame_counter_offset + 2, 100,
                          frame_record_flag_value) ] }

Reads(geom, capture, id) ==
    IF capture = "open"
    THEN {NoData} \cup GoodFrames(geom, id) \cup BadFrames(geom, id)
    ELSE {NoData}

\* the size in bytes of the buffer behind a read
BufferBytes(rd) == rd.nrows * rd.row.width * size16

(***************************************************************************)
(* The session.                                                            *)
(***************************************************************************)
VARIABLES
    promotion,            \* the build: how NumPy types the decode arithmetic
    downsample_factor,    \* __init__'s argument
    sync_with_recording,
    session,              \* "ok", or the exception __init__ raised
    geometry,             \* the fields isx_set_defaults sets
    stream_capture,       \* "unset", "open" or "closed"
    prev_frame_seq_id,
    frame_statistics,
    calls,                \* get_frame calls made
    read,                 \* what the last get_frame call read
    returned,             \* what the last get_frame call returned
    decoded_now,          \* whether the last get_frame call decoded its frame
    last_decoded,         \* counter decoded from the latest decoded frame
    prev_decoded,         \* counter decoded from the decoded frame before it
    any_decoded,          \* whether any frame was decoded so far
    last_gated,           \* whether the gate suppressed the latest decoded frame
    prev_gated,           \* whether it suppressed the decoded frame before it
    after_zero            \* 1: the latest decoded frame directly follows a decoded
                          \* frame with counter 0; 2: it follows such a frame; else 0

vars == << promotion, downsample_factor, sync_with_recording, session, geometry,
           stream_capture, prev_frame_seq_id, frame_statistics, calls, read,
           returned, decoded_now, last_decoded, prev_decoded, any_decoded,
           last_gated, prev_gated, after_zero >>

config == << promotion, downsample_factor, sync_with_recording, session, geometry >>

history == << last_decoded, prev_decoded, any_decoded, last_gated, prev_gated,
             after_zero >>

\* __init__: lines 22, 24 and 65
Init ==
    /\ promotion \in Promotions
    /\ downsample_factor \in DownsampleFactors
    /\ sync_with_recording \in BOOLEAN
    /\ session = IF RaisesZeroDivision(downsample_factor)
                 THEN "ZeroDivisionError" ELSE "ok"
    /\ geometry = IF RaisesZeroDivision(downsample_factor)
                  THEN NoGeometry ELSE isx_set_defaults(downsample_factor)
    /\ stream_capture = "unset"
    /\ prev_frame_seq_id = 0
    /\ frame_statistics =
           [ missing_frames_range |-> << >>, seq_id |-> 0, isxd_record |-> FALSE ]
    /\ calls = 0
    /\ read = NoData
    /\ returned = None
    /\ decoded_now = FALSE
    /\ last_decoded = 0
    /\ prev_decoded = 0
    /\ any_decoded = FALSE
    /\ last_gated = FALSE
    /\ prev_gated = FALSE
    /\ after_zero = 0

\* start_stream: a new capture, which opens or does not
StartStream ==
    /\ session = "ok"
    /\ stream_capture # "open"
    /\ \E opened \in BOOLEAN :
           stream_capture' = IF opened THEN "open" ELSE "closed"
    /\ UNCHANGED << config, prev_frame_seq_id, frame_statistics, calls, read,
                    returned, decoded_now, history >>

\* stop_stream: release() on the capture
StopStream ==
    /\ session = "ok"
    /\ stream_capture = "open"
    /\ stream_capture' = "closed"
    /\ UNCHANGED << config, prev_frame_seq_id, frame_statistics, calls, read,
                    returned, decoded_now, history >>

GetFrame ==
    /\ session = "ok"
    /\ calls < MaxFrames
    /\ \E rd \in Reads(geometry, stream_capture, calls + 1) :
         \E g \in { get_frame(promotion, geometry, sync_with_recording,
                              stream_capture, prev_frame_seq_id, frame_statistics, rd) } :
             /\ read' = rd
             /\ returned' = g.returned
             /\ prev_frame_seq_id' = g.prev_frame_seq_id
             /\ frame_statistics' = g.frame_statistics
             /\ decoded_now' = g.decoded
             /\ last_decoded' = IF g.decoded THEN g.frame_statistics.seq_id
                                ELSE last_decoded
             /\ prev_decoded' = IF g.decoded THEN last_decoded ELSE prev_decoded
             /\ any_decoded' = (any_decoded \/ g.decoded)
             /\ last_gated' = IF g.decoded THEN g.returned = None ELSE last_gated
             /\ prev_gated' = IF g.decoded THEN last_gated ELSE prev_gated
             /\ after_zero' = IF ~g.decoded THEN after_zero
                              ELSE IF any_decoded /\ last_decoded = 0 THEN 1
                              ELSE IF after_zero = 1 THEN 2
                              ELSE 0
    /\ calls' = calls + 1
    /\ UNCHANGED << config, stream_capture >>

Next == StartStream \/ StopStream \/ GetFrame

Spec == Init /\ [][Next]_vars

(***************************************************************************)
(* Properties.                                                             *)
(***************************************************************************)
ValidFactor(ds) ==
    ds > 0 /\ isx_default_width % ds = 0 /\ isx_default_height % ds = 0

Delivered == returned.kind = "pair"

WrongSize(rd) == rd.ret /\ BufferBytes(rd) # geometry.frame_size_in_bytes

C2_GeometryForFactor2 ==
    (session = "ok" /\ downsample_factor = 2) =>
        /\ geometry.stream_width = 640
        /\ geometry.stream_height = 408
        /\ geometry.frame_width = 1280
        /\ geometry.frame_height = 816
        /\ geometry.frame_size_in_bytes = 1044480
        /\ geometry.isx_header_offset = 4
        /\ geometry.isx_footer_offset = 404
        /\ geometry.header_row_with_meta = 1
        /\ geometry.frame_counter_offset = 618
        /\ geometry.frame_record_flag_offset = 617
        /\ isx_set_defaults(2) = geometry

C2_Witness ==
    /\ session = "ok" /\ downsample_factor = 2
    /\ calls = 2 /\ decoded_now /\ Delivered

C4_DecodeRoundTrip ==
    decoded_now =>
        /\ frame_statistics.seq_id = read.counter
        /\ frame_statistics.isxd_record = (read.flag = frame_record_flag_value)

\* C5: a session constructed with a downsample factor that is zero or does not
\* divide both 1280 and 800 fails: no geometry is produced and no get_frame
\* call is made on it.
C5_InvalidFactorFails ==
    ~ValidFactor(downsample_factor) =>
        /\ session # "ok"
        /\ geometry = NoGeometry
        /\ calls = 0

\* C6: get_frame on a buffer of the wrong size returns (None, None), never the
\* new frame with the statistics of an earlier one.
C6_WrongSizeGivesNone ==
    (calls > 0 /\ WrongSize(read)) => returned = None

\* C7: for every valid downsample factor the flag column and the four counter
\* columns lie in one row of the stream, the telemetry row and the header and
\* footer rows lie in the stream's height, header <= footer, and the frame is
\* twice the stream in both directions with frame_size = width * height; and
\* no step changes the geometry.
C7_GeometryInRange ==
    (session = "ok" /\ ValidFactor(downsample_factor)) =>
        /\ 0 <= geometry.frame_record_flag_offset
        /\ geometry.frame_record_flag_offset < geometry.stream_width
        /\ 0 <= geometry.frame_counter_offset
        /\ geometry.frame_counter_offset + 3 < geometry.stream_width
        /\ 0 <= geometry.header_row_with_meta
        /\ geometry.header_row_with_meta < geometry.stream_height
        /\ 0 <= geometry.isx_header_offset
        /\ geometry.isx_header_offset <= geometry.isx_footer_offset
        /\ geometry.isx_footer_offset < geometry.stream_height
        /\ geometry.frame_width = 2 * geometry.stream_width
        /\ geometry.frame_height = 2 * geometry.stream_height
        /\ geometry.frame_size_in_bytes = geometry.frame_width * geometry.frame_height

\* C7: the ranges above hold in every state of a session with a valid factor,
\* and no start_stream, stop_stream or get_frame step changes the geometry.
C7_GeometryInvariant ==
    /\ [] C7_GeometryInRange
    /\ [][geometry' = geometry]_vars

C7_Witness ==
    /\ session = "ok" /\ downsample_factor = 160
    /\ calls = 3 /\ decoded_now /\ Delivered

\* C8: prev_frame_seq_id is the counter of the most recently decoded frame, or
\* 0 when none was decoded: every decoded frame sets it, the first one and the
\* ones the recording gate suppresses too, and a call that decodes nothing
\* leaves it; so a delivered frame's missing range is measured from the decoded
\* frame just before it.
C8_PrevIsLastDecoded ==
    /\ prev_frame_seq_id = last_decoded
    /\ ~any_decoded => prev_frame_seq_id = 0
    /\ decoded_now =>
          /\ prev_frame_seq_id = frame_statistics.seq_id
          /\ (frame_statistics.missing_frames_range = << >>)
                <=> (prev_decoded = 0
                        \/ last_decoded = PlusOne(promotion, prev_decoded))
          /\ frame_statistics.missing_frames_range # << >> =>
                frame_statistics.missing_frames_range[1]
                    = PlusOne(promotion, prev_decoded)

\* a delivered frame whose range starts after a suppressed frame's counter
C8_Witness ==
    /\ sync_with_recording /\ decoded_now /\ Delivered /\ prev_gated
    /\ prev_decoded = 101 /\ last_decoded = 103
    /\ returned.stats.missing_frames_range = << 102, 102 >>
    /\ prev_frame_seq_id = 103

\* C9: the frame decoded right after a frame with counter 0 reports an empty
\* missing range whatever its counter, and the frame after that one is again
\* compared with its predecessor.
C9_ZeroIsNoPrevious ==
    decoded_now =>
        /\ after_zero = 1 => frame_statistics.missing_frames_range = << >>
        /\ after_zero = 2 =>
              ((frame_statistics.missing_frames_range = << >>)
                  <=> (last_decoded = PlusOne(promotion, prev_decoded)))

C9_Witness ==
    /\ decoded_now /\ after_zero = 2 /\ calls = 3
    /\ prev_decoded = 100 /\ last_decoded = 103
    /\ frame_statistics.missing_frames_range = << 101, 102 >>

\* C10 as stated: header_offset = (meta_total_bytes / 2) / stream_width,
\* footer_offset = 800 / downsample_factor + header_offset, and the delivered
\* pixel region has 800 / downsample_factor rows.
C10_HeaderOffsetAsStated ==
    (session = "ok" /\ ValidFactor(downsample_factor)) =>
        /\ geometry.isx_header_offset
              = (isx_meta_total_bytes \div 2) \div geometry.stream_width
        /\ geometry.isx_footer_offset
              = (isx_default_height \div downsample_factor) + geometry.isx_header_offset

\* C10 amended: header_offset = (meta_total_bytes / 2) / (2 * stream_width),
\* the header's bytes over the bytes of one row of 16-bit samples;
\* footer_offset = 800 / downsample_factor + header_offset, and a delivered
\* frame of the right size has exactly 800 / downsample_factor pixel rows,
\* starting at row header_offset.
C10_HeaderOffsetPerRowBytes ==
    (session = "ok" /\ ValidFactor(downsample_factor)) =>
        /\ geometry.isx_header_offset
              = (isx_meta_total_bytes \div 2) \div (2 * geometry.stream_width)
        /\ geometry.isx_footer_offset
              = (isx_default_height \div downsample_factor) + geometry.isx_header_offset
        /\ (Delivered /\ ~WrongSize(read)) =>
              /\ returned.frame.first = geometry.isx_header_offset
              /\ returned.frame.rows = isx_default_height \div downsample_factor

C10_Witness ==
    /\ session = "ok" /\ downsample_factor = 4
    /\ Delivered /\ ~WrongSize(read)
    /\ returned.frame.first = 8 /\ returned.frame.rows = 200

====
